---- MODULE Spec2Model ----
(***************************************************************************)
(* LookML lineage resolution: the upstream resolution strategies of        *)
(* looker/view_upstream.py and the template pipeline of                    *)
(* looker/looker_template_language.py.                                     *)
(*                                                                         *)
(* Text (SQL, table names) is a sequence of tokens.  Python's Optional[x]  *)
(* is a sequence of length 0 (None) or 1; a Python list is a sequence.     *)
(***************************************************************************)
EXTENDS Integers, Sequences, FiniteSets, TLC

\* ------------------------------------------------------------------ bounds
\* operations called on one strategy instance
MaxCalls == 3
\* length of the in_tables list the SQL parser returns
MaxTables == 2
\* length of the column_lineage list the SQL parser returns
MaxEdges == 2
\* tokens in a view's sql_table_name
MaxNameLen == 1
\* tokens in a view's derived_table.sql
MaxSqlLen == 2
\* invocations of TransformedLookMlView.view() on one instance
MaxViewCalls == 2
\* tokens in the raw name handed to _generate_fully_qualified_name
MaxRawLen == 7
\* tokens in the text handed to the Conditional-Comment Evaluator
MaxIfLen == 4
\* tokens in the fragment handed to the SQL-Completion Fixer
MaxFragmentLen == 3
\* tokens in a text handed to resolve_liquid_variable
MaxResolveLen == 2
\* calls of resolve_liquid_variable against one configuration
MaxResolveCalls == 2

\* ------------------------------------------------------- sequence helpers
Range(s) == {s[i] : i \in 1..Len(s)}

SeqsUpTo(S, n) == UNION {[1..k -> S] : k \in 0..n}

NoRepeat(s) == \A i, j \in 1..Len(s) : s[i] = s[j] => i = j

Count(s, x) == Cardinality({i \in 1..Len(s) : s[i] = x})

\* str.lower() on one token
LowerTok(t) ==
    CASE t = "T" -> "t"
      [] t = "DB" -> "db"
      [] t = "SQL_TABLE_NAME" -> "sql_table_name"
      [] OTHER -> t

Lower(s) == [i \in 1..Len(s) |-> LowerTok(s[i])]

\* str.split("."): the list of segments between the "." tokens
RECURSIVE Split(_)
Split(s) ==
    IF \A i \in 1..Len(s) : s[i] /= "."
    THEN <<s>>
    ELSE LET i == CHOOSE k \in 1..Len(s) :
                     s[k] = "." /\ \A j \in 1..(k - 1) : s[j] /= "."
         IN <<SubSeq(s, 1, i - 1)>> \o Split(SubSeq(s, i + 1, Len(s)))

\* ".".join(parts)
RECURSIVE Join(_)
Join(parts) ==
    IF Len(parts) = 0 THEN <<>>
    ELSE IF Len(parts) = 1 THEN parts[1]
    ELSE parts[1] \o <<".">> \o Join(Tail(parts))

\* --------------------------------------------------------------- the data
VIEW_NAME == "v"
VIEW_FILE_NAME == "v.view.lkml"
DERIVED_VIEW == "d"
ENV == "PROD"

\* a sql_table_name that names a table, and one that refers to a view
PlainNames == {<<"T">>, <<"DB", ".", "T">>}
RefName == <<DERIVED_VIEW, ".", "SQL_TABLE_NAME">>

Platforms == {"hive", "snowflake"}

ConnectionDefs ==
    [platform : Platforms, default_db : {<<"DB">>}, default_schema : {<<"sch">>}]

\* the five predicates of LookerViewContext that create_view_upstream reads
ViewContextPredicates ==
    [is_regular_case : BOOLEAN,
     is_sql_table_name_referring_to_view : BOOLEAN,
     is_sql_based_derived_case : BOOLEAN,
     is_sql_based_derived_view_without_fields_case : BOOLEAN,
     is_native_derived_case : BOOLEAN]

\* sql_table_name() and the connection are read by the Regular and the
\* Dot-Reference strategies alone (the SQL-Derived strategy hands the
\* connection to the parser, whose answer is an input); for the other views
\* one representative is enough.
ViewContexts ==
    {vc \in [preds : ViewContextPredicates,
             sql_table_name : PlainNames \cup {RefName},
             view_connection : ConnectionDefs] :
        /\ (vc.sql_table_name = RefName) = vc.preds.is_sql_table_name_referring_to_view
        /\ (~vc.preds.is_regular_case /\ ~vc.preds.is_sql_table_name_referring_to_view)
              => /\ vc.sql_table_name = <<"T">>
                 /\ vc.view_connection.platform = "snowflake"}

\* FieldContext: name() and column_name_in_sql_attribute()
FieldContexts ==
    {[name |-> "f1", cols |-> <<"c1", "c2">>], [name |-> "f2", cols |-> <<>>]}

\* explore_source() of an explore-derived view
ExploreSource ==
    [name |-> "exp",
     columns |-> <<[name |-> "c1", field |-> <<"e.x">>], [name |-> "c2", field |-> <<>>]>>]

\* make_dataset_urn_with_platform_instance: the dataset reference
make_dataset_urn(platform, name, env) ==
    [platform |-> platform, name |-> name, env |-> env]

\* LookerViewId.get_urn: the reference of a view
ViewUrn(view) == make_dataset_urn("looker", <<view>>, ENV)

\* LookerExplore.get_explore_urn
ExploreUrn(model, explore) ==
    make_dataset_urn("looker", <<model, ".", "explore", ".", explore>>, ENV)

\* references the SQL parser can return
U_plain == make_dataset_urn("snowflake", <<"db", ".", "sch", ".", "t">>, ENV)
U_hive == make_dataset_urn("hive", <<"hive", ".", "db", ".", "t">>, ENV)
U_derived ==
    make_dataset_urn("snowflake", <<"db", ".", "sch", ".", DERIVED_VIEW, ".", "sql_table_name">>, ENV)

\* a hive table in a database that is itself named hive
U_hive_db_hive == make_dataset_urn("hive", <<"hive", ".", "hive", ".", "t">>, ENV)

ParserUrns == {U_plain, U_hive, U_derived, U_hive_db_hive}

ParserEdges ==
    {[downstream |-> [column |-> "f1", native_column_type |-> <<"int">>], upstreams |-> <<>>],
     [downstream |-> [column |-> "f1", native_column_type |-> <<"int">>],
      upstreams |-> <<[table |-> U_hive, column |-> "x"]>>],
     [downstream |-> [column |-> "f3", native_column_type |-> <<>>],
      upstreams |-> <<[table |-> U_derived, column |-> "y"]>>]}

\* SqlParsingResult: what create_lineage_sql_parsed_result can answer.  A
\* failed parse carries its error in debug_info and whatever it resolved.
ParserResults ==
    {r \in [in_tables : SeqsUpTo(ParserUrns, MaxTables),
            column_lineage : SeqsUpTo(ParserEdges, MaxEdges),
            table_error : BOOLEAN,
            column_error : BOOLEAN] :
        /\ NoRepeat(r.in_tables)
        /\ (r.table_error \/ r.column_error)
              => /\ r.in_tables \in {<<>>, <<U_hive, U_plain>>}
                 /\ r.column_lineage \in {<<>>, <<CHOOSE e \in ParserEdges : e.upstreams /= <<>> /\ e.downstream.column = "f1">>}}

\* ---------------------------------------------------- view_upstream.py
_platform_names_have_2_parts(platform) == platform \in {"hive", "mysql", "athena"}

\* re.sub(r"hive\.", "", text): every "hive" directly followed by "." goes
RECURSIVE SubHiveDot(_)
SubHiveDot(s) ==
    IF Len(s) < 2 THEN s
    ELSE IF s[1] = "hive" /\ s[2] = "." THEN SubHiveDot(SubSeq(s, 3, Len(s)))
    ELSE <<s[1]>> \o SubHiveDot(Tail(s))

_drop_hive_dot(urn) ==
    IF urn.platform = "hive"
    THEN [urn EXCEPT !.name = SubHiveDot(urn.name)]
    ELSE urn

_drop_hive_dot_from_upstream(upstreams) ==
    [i \in 1..Len(upstreams) |->
        [table |-> _drop_hive_dot(upstreams[i].table), column |-> upstreams[i].column]]

\* faulty variant: the leading segment of a 3-part name is kept on a platform
\* whose names have 2 parts
_generate_fully_qualified_name_keeps_first(sql_table_name, connection_def) ==
    LET parts == Len(Split(sql_table_name))
        two == _platform_names_have_2_parts(connection_def.platform)
    IN  IF parts = 3
        THEN [name |-> Lower(sql_table_name), warnings |-> <<>>]
        ELSE IF parts = 1
        THEN [name |-> Lower(IF two
                             THEN connection_def.default_db \o <<".">> \o sql_table_name
                             ELSE connection_def.default_db \o <<".">>
                                    \o connection_def.default_schema \o <<".">>
                                    \o sql_table_name),
              warnings |-> <<>>]
        ELSE IF parts = 2
        THEN [name |-> Lower(IF two THEN sql_table_name
                             ELSE connection_def.default_db \o <<".">> \o sql_table_name),
              warnings |-> <<>>]
        ELSE [name |-> Lower(sql_table_name), warnings |-> <<sql_table_name>>]

\* returns the name and the warnings reported to the reporter
_generate_fully_qualified_name(sql_table_name, connection_def) ==
    LET parts == Len(Split(sql_table_name))
        two == _platform_names_have_2_parts(connection_def.platform)
    IN  IF parts = 3
        THEN [name |-> Lower(IF two THEN Join(Tail(Split(sql_table_name)))
                                    ELSE sql_table_name),
              warnings |-> <<>>]
        ELSE IF parts = 1
        THEN [name |-> Lower(IF two
                             THEN connection_def.default_db \o <<".">> \o sql_table_name
                             ELSE connection_def.default_db \o <<".">>
                                    \o connection_def.default_schema \o <<".">>
                                    \o sql_table_name),
              warnings |-> <<>>]
        ELSE IF parts = 2
        THEN [name |-> Lower(IF two THEN sql_table_name
                             ELSE connection_def.default_db \o <<".">> \o sql_table_name),
              warnings |-> <<>>]
        ELSE [name |-> Lower(sql_table_name), warnings |-> <<sql_table_name>>]

\* ------------------------------------------------- lookml_resolver (cache)
\* is_derived_view: the name ends in .sql_table_name
is_derived_view(urn) ==
    Len(urn.name) >= 3 /\ Lower(urn.name)[Len(urn.name)] = "sql_table_name"

\* get_derived_looker_view_id: the segment before .sql_table_name is looked
\* up in the View Identity Cache; absent (None) on a miss
get_derived_looker_view_id(qualified_table_name, cache) ==
    LET segs == Split(qualified_table_name)
        view == IF Len(segs) >= 2 THEN segs[Len(segs) - 1] ELSE segs[1]
    IN  IF Len(view) = 1 /\ view[1] \in cache THEN <<view[1]>> ELSE <<>>

\* LookerViewIdCache.get_looker_view_id
get_looker_view_id(view_name, cache) ==
    IF view_name \in cache THEN <<view_name>> ELSE <<>>

\* fix_derived_view_urn: a reference to a derived view becomes the view's
\* reference when the cache knows the view, and is left out when it does not
RECURSIVE fix_derived_view_urn(_, _)
fix_derived_view_urn(urns, cache) ==
    IF Len(urns) = 0 THEN <<>>
    ELSE LET u == urns[1]
             id == get_derived_looker_view_id(u.name, cache)
             rest == fix_derived_view_urn(Tail(urns), cache)
         IN  IF ~is_derived_view(u) THEN <<u>> \o rest
             ELSE IF id = <<>> THEN rest
             ELSE <<ViewUrn(id[1])>> \o rest

RECURSIVE resolve_derived_view_urn_of_col_ref(_, _)
resolve_derived_view_urn_of_col_ref(column_refs, cache) ==
    IF Len(column_refs) = 0 THEN <<>>
    ELSE LET r == column_refs[1]
             fixed == fix_derived_view_urn(<<r.table>>, cache)
             rest == resolve_derived_view_urn_of_col_ref(Tail(column_refs), cache)
         IN  IF ~is_derived_view(r.table) THEN <<r>> \o rest
             ELSE IF fixed = <<>> THEN rest
             ELSE <<[table |-> fixed[1], column |-> r.column]>> \o rest

\* -------------------------------------------------------------- the state
VARIABLES
    view_context,          \* the LookerViewContext handed to create_view_upstream
    parse_table_names_from_sql,   \* config.parse_table_names_from_sql
    looker_view_id_cache,  \* the views the View Identity Cache can resolve
    view_upstream,         \* class of the strategy instance, "none" before creation
    self,                  \* the instance's fields and its two lru_cache slots
    reporter,              \* keys of the warnings reported so far
    parser_calls,          \* calls of create_lineage_sql_parsed_result
    lookup_calls,          \* dataset-level lookups in the View Identity Cache
    fqn_calls,             \* calls of _generate_fully_qualified_name
    spr_raw,               \* Optional: what the parser answered
    calls,                 \* operations called on the instance
    result,                \* the last operation and what it returned
    urn_returns            \* the lists get_upstream_dataset_urn has returned

upstream_vars ==
    <<view_context, parse_table_names_from_sql, looker_view_id_cache, view_upstream,
      self, reporter, parser_calls, lookup_calls, fqn_calls, spr_raw, calls, result,
      urn_returns>>

Strategies ==
    {"RegularViewUpstream", "DotSqlTableNameViewUpstream", "SqlBasedDerivedViewUpstream",
     "NativeDerivedViewUpstream", "EmptyImplementation"}

\* __init__ of the strategies: upstream_dataset_urn = None / [], empty caches
NewInstance == [upstream_dataset_urn |-> <<>>, spr_cache |-> <<>>, urn_cache |-> <<>>]

NoResult == [op |-> "none", field |-> "-", val |-> <<>>, raised |-> FALSE]

\* what an operation reads and writes besides its return value
Machine ==
    [self |-> self, reporter |-> reporter, parser_calls |-> parser_calls,
     lookup_calls |-> lookup_calls, fqn_calls |-> fqn_calls, spr_raw |-> spr_raw]

Return(m, val) == [m |-> m, val |-> val, raised |-> FALSE]

Raise(m) == [m |-> m, val |-> <<>>, raised |-> TRUE]

\* ------------------------------------------------------ create_view_upstream
\* faulty variant: the dot-reference check comes before the regular check
create_view_upstream_dot_first(vc) ==
    IF vc.preds.is_sql_table_name_referring_to_view
    THEN [cls |-> "DotSqlTableNameViewUpstream", warnings |-> <<>>]
    ELSE IF vc.preds.is_regular_case
    THEN [cls |-> "RegularViewUpstream", warnings |-> <<>>]
    ELSE IF vc.preds.is_sql_based_derived_case
            \/ vc.preds.is_sql_based_derived_view_without_fields_case
    THEN [cls |-> "SqlBasedDerivedViewUpstream", warnings |-> <<>>]
    ELSE IF vc.preds.is_native_derived_case
    THEN [cls |-> "NativeDerivedViewUpstream", warnings |-> <<>>]
    ELSE [cls |-> "EmptyImplementation", warnings |-> <<VIEW_FILE_NAME>>]

\* the class instantiated and the warnings reported
create_view_upstream(vc) ==
    IF vc.preds.is_regular_case
    THEN [cls |-> "RegularViewUpstream", warnings |-> <<>>]
    ELSE IF vc.preds.is_sql_table_name_referring_to_view
    THEN [cls |-> "DotSqlTableNameViewUpstream", warnings |-> <<>>]
    ELSE IF vc.preds.is_sql_based_derived_case
            \/ vc.preds.is_sql_based_derived_view_without_fields_case
    THEN [cls |-> "SqlBasedDerivedViewUpstream", warnings |-> <<>>]
    ELSE IF vc.preds.is_native_derived_case
    THEN [cls |-> "NativeDerivedViewUpstream", warnings |-> <<>>]
    ELSE [cls |-> "EmptyImplementation", warnings |-> <<VIEW_FILE_NAME>>]

\* ------------------------------------------------ SqlBasedDerivedViewUpstream
\* faulty variant: a column-level error is not looked at
Sql__get_spr_table_error_only(m, raw) ==
    IF ~parse_table_names_from_sql
    THEN Return(m, <<>>)
    ELSE LET m1 == [m EXCEPT !.parser_calls = @ + 1, !.spr_raw = <<raw>>]
         IN  IF raw.table_error
             THEN Return(m1, <<>>)
             ELSE Return(m1, <<raw>>)

\* raw is what the parser answers if it is asked
Sql__get_spr(m, raw) ==
    IF ~parse_table_names_from_sql
    THEN Return(m, <<>>)
    ELSE LET m1 == [m EXCEPT !.parser_calls = @ + 1, !.spr_raw = <<raw>>]
         IN  IF raw.table_error \/ raw.column_error
             THEN Return(m1, <<>>)
             ELSE Return(m1, <<raw>>)

\* faulty variant: a None result is not kept, so a failed parse is repeated
Sql_get_spr_none_not_kept(m, raw) ==
    IF m.self.spr_cache /= <<>> /\ m.self.spr_cache[1] /= <<>>
    THEN Return(m, m.self.spr_cache[1])
    ELSE LET r == Sql__get_spr(m, raw)
         IN  Return([r.m EXCEPT !.self.spr_cache = <<r.val>>], r.val)

\* lru_cache(maxsize=1)(self.__get_spr): the slot keeps the one result, None too
Sql_get_spr(m, raw) ==
    IF m.self.spr_cache /= <<>>
    THEN Return(m, m.self.spr_cache[1])
    ELSE LET r == Sql__get_spr(m, raw)
         IN  Return([r.m EXCEPT !.self.spr_cache = <<r.val>>], r.val)

Sql__get_upstream_dataset_urn(m, raw) ==
    LET r == Sql_get_spr(m, raw)
    IN  IF r.val = <<>>
        THEN Return(r.m, <<>>)
        ELSE LET in_tables == r.val[1].in_tables
                 upstream_dataset_urns ==
                     [i \in 1..Len(in_tables) |-> _drop_hive_dot(in_tables[i])]
             IN  Return([r.m EXCEPT !.lookup_calls = @ + 1],
                        fix_derived_view_urn(upstream_dataset_urns, looker_view_id_cache))

\* lru_cache(maxsize=1)(self.__get_upstream_dataset_urn)
Sql_get_upstream_dataset_urn(m, raw) ==
    IF m.self.urn_cache /= <<>>
    THEN Return(m, m.self.urn_cache[1])
    ELSE LET r == Sql__get_upstream_dataset_urn(m, raw)
         IN  Return([r.m EXCEPT !.self.urn_cache = <<r.val>>], r.val)

\* faulty variant: the loop does not break, the last matching edge wins
RECURSIVE Sql_matching_upstreams_no_break(_, _)
Sql_matching_upstreams_no_break(column_lineage, name) ==
    IF Len(column_lineage) = 0 THEN <<>>
    ELSE IF column_lineage[Len(column_lineage)].downstream.column = name
    THEN column_lineage[Len(column_lineage)].upstreams
    ELSE Sql_matching_upstreams_no_break(SubSeq(column_lineage, 1, Len(column_lineage) - 1), name)

\* the loop over column_lineage: the upstreams of the first edge whose
\* downstream column is the field, [] when there is none
RECURSIVE Sql_matching_upstreams(_, _)
Sql_matching_upstreams(column_lineage, name) ==
    IF Len(column_lineage) = 0 THEN <<>>
    ELSE IF column_lineage[1].downstream.column = name THEN column_lineage[1].upstreams
    ELSE Sql_matching_upstreams(Tail(column_lineage), name)

Sql_get_upstream_column_ref(m, field_context, raw) ==
    LET r == Sql_get_spr(m, raw)
    IN  IF r.val = <<>>
        THEN Return(r.m, <<>>)
        ELSE LET parsed == Sql_matching_upstreams(r.val[1].column_lineage, field_context.name)
                 u == Sql_get_upstream_dataset_urn(r.m, raw)
                 cols == field_context.cols
                 upstreams_column_refs ==
                     IF u.val /= <<>> /\ parsed = <<>>
                     THEN [i \in 1..Len(cols) |-> [table |-> u.val[1], column |-> cols[i]]]
                     ELSE parsed
             IN  Return(u.m, resolve_derived_view_urn_of_col_ref(upstreams_column_refs,
                                                                 looker_view_id_cache))

Sql_create_fields(m, raw) ==
    LET r == Sql_get_spr(m, raw)
    IN  IF r.val = <<>>
        THEN Return(r.m, <<>>)
        ELSE LET column_lineages == r.val[1].column_lineage
             IN  Return(r.m,
                        [i \in 1..Len(column_lineages) |->
                            [name |-> column_lineages[i].downstream.column,
                             type |-> IF column_lineages[i].downstream.native_column_type /= <<>>
                                      THEN column_lineages[i].downstream.native_column_type[1]
                                      ELSE "unknown",
                             upstream_fields |->
                                 _drop_hive_dot_from_upstream(column_lineages[i].upstreams)]])

\* -------------------------------------------------- NativeDerivedViewUpstream
Native__get_upstream_dataset_urn(m) ==
    LET current_view_id == get_looker_view_id(VIEW_NAME, looker_view_id_cache)
        m1 == [m EXCEPT !.lookup_calls = @ + 1]
    IN  IF current_view_id = <<>>
        THEN Raise(m1)     \* assert current_view_id
        ELSE Return(m1, <<ExploreUrn("model", ExploreSource.name)>>)

\* lru_cache(maxsize=1): a call that raises leaves the slot empty
Native_get_upstream_dataset_urn(m) ==
    IF m.self.urn_cache /= <<>>
    THEN Return(m, m.self.urn_cache[1])
    ELSE LET r == Native__get_upstream_dataset_urn(m)
         IN  IF r.raised THEN r
             ELSE Return([r.m EXCEPT !.self.urn_cache = <<r.val>>], r.val)

\* __get_explore_column_mapping: column name -> column, as the list of the
\* declared columns (names are unique)
Native_explore_column(column) ==
    LET hits == {i \in 1..Len(ExploreSource.columns) : ExploreSource.columns[i].name = column}
    IN  IF hits = {} THEN <<>> ELSE <<ExploreSource.columns[CHOOSE i \in hits : TRUE]>>

RECURSIVE Native_column_refs(_, _)
Native_column_refs(cols, explore_urn) ==
    IF Len(cols) = 0 THEN <<>>
    ELSE LET c == Native_explore_column(cols[1])
             rest == Native_column_refs(Tail(cols), explore_urn)
         IN  IF c = <<>> THEN rest
             ELSE <<[column |-> IF c[1].field /= <<>> THEN c[1].field[1] ELSE c[1].name,
                     table |-> explore_urn]>> \o rest

Native_get_upstream_column_ref(m, field_context) ==
    LET r == Native_get_upstream_dataset_urn(m)
    IN  IF r.raised THEN r
        ELSE IF r.val = <<>> THEN Return(r.m, <<>>)
        ELSE Return(r.m, Native_column_refs(field_context.cols, r.val[1]))

\* -------------------------------------------------------- RegularViewUpstream
Regular_get_upstream_dataset_urn(m) ==
    IF m.self.upstream_dataset_urn = <<>>
    THEN LET q == _generate_fully_qualified_name(view_context.sql_table_name,
                                                 view_context.view_connection)
             urn == make_dataset_urn(view_context.view_connection.platform,
                                     Lower(q.name), ENV)
         IN  Return([m EXCEPT !.self.upstream_dataset_urn = <<urn>>,
                              !.fqn_calls = @ + 1,
                              !.reporter = @ \o q.warnings],
                    urn)
    ELSE Return(m, m.self.upstream_dataset_urn[1])

\* the loop of get_upstream_column_ref: one _get_upstream_dataset_urn per column
RECURSIVE Regular_column_refs(_, _)
Regular_column_refs(m, cols) ==
    IF Len(cols) = 0 THEN Return(m, <<>>)
    ELSE LET r == Regular_get_upstream_dataset_urn(m)
             rest == Regular_column_refs(r.m, Tail(cols))
         IN  Return(rest.m, <<[table |-> r.val, column |-> cols[1]]>> \o rest.val)

Regular_get_upstream_column_ref(m, field_context) ==
    Regular_column_refs(m, field_context.cols)

Regular_get_upstream_dataset_urns(m) ==
    LET r == Regular_get_upstream_dataset_urn(m)
    IN  Return(r.m, <<r.val>>)

\* -------------------------------------------------- DotSqlTableNameViewUpstream
Dot_get_upstream_dataset_urn(m) ==
    IF m.self.upstream_dataset_urn = <<>>       \* if not self.upstream_dataset_urn
    THEN LET q == _generate_fully_qualified_name(view_context.sql_table_name,
                                                 view_context.view_connection)
             looker_view_id == get_derived_looker_view_id(q.name, looker_view_id_cache)
             m1 == [m EXCEPT !.fqn_calls = @ + 1,
                             !.lookup_calls = @ + 1,
                             !.reporter = @ \o q.warnings]
         IN  IF looker_view_id /= <<>>
             THEN Return([m1 EXCEPT !.self.upstream_dataset_urn = <<ViewUrn(looker_view_id[1])>>],
                         <<ViewUrn(looker_view_id[1])>>)
             ELSE Return(m1, m1.self.upstream_dataset_urn)
    ELSE Return(m, m.self.upstream_dataset_urn)

RECURSIVE Dot_column_refs(_, _)
Dot_column_refs(m, cols) ==
    IF Len(cols) = 0 THEN Return(m, <<>>)
    ELSE LET r == Dot_get_upstream_dataset_urn(m)
             rest == Dot_column_refs(r.m, Tail(cols))
         IN  Return(rest.m, <<[table |-> r.val[1], column |-> cols[1]]>> \o rest.val)

\* faulty variant: no early return, so [0] of the empty list raises
Dot_get_upstream_column_ref_no_guard(m, field_context) ==
    LET r == Dot_get_upstream_dataset_urn(m)
    IN  IF r.val = <<>> /\ field_context.cols /= <<>> THEN Raise(r.m)
        ELSE Dot_column_refs(r.m, field_context.cols)

Dot_get_upstream_column_ref(m, field_context) ==
    LET r == Dot_get_upstream_dataset_urn(m)
    IN  IF r.val = <<>> THEN Return(r.m, <<>>)
        ELSE Dot_column_refs(r.m, field_context.cols)

\* ---------------------------------------------------------- EmptyImplementation
Empty_get_upstream_column_ref(m, field_context) == Return(m, <<>>)

Empty_get_upstream_dataset_urn(m) == Return(m, <<>>)

\* AbstractViewUpstream.create_fields, inherited by all but the SQL strategy
Abstract_create_fields(m) == Return(m, <<>>)

\* ------------------------------------------- looker_template_language.py
\* keys of the view mapping (looker_constant)
NAME == "name"
SQL_TABLE_NAME == "sql_table_name"
DATAHUB_TRANSFORMED_SQL_TABLE_NAME == "datahub_transformed_sql_table_name"
DERIVED_TABLE == "derived_table"
SQL == "sql"
DATAHUB_TRANSFORMED_SQL == "datahub_transformed_sql"

\* the tokens of a SQL text:
\*   IfDev, IfProd  the directives "-- if dev --" and "-- if prod --"
\*   NL             a newline
\*   Var            the liquid output "{{ x }}"
\*   Bad            a liquid tag the engine cannot parse
\*   Macro          "${d.SQL_TABLE_NAME}", Ref its inner "d.SQL_TABLE_NAME"
\*   SELECT, FROM   the keyword and the whitespace after it
\*   w              any other text
SqlAlphabet == {"IfDev", "IfProd", "NL", "Var", "Bad", "Macro", "SELECT", "FROM", "w"}

\* a dict: a function from keys; {} is the function of no key
EmptyDict == [k \in {} |-> k]

Get(d, k, default) == IF k \in DOMAIN d THEN d[k] ELSE default

\* always_merger.merge(base, nxt): a key of nxt is added to base, mappings
\* under the same key are merged key by key, anything else is overridden
Merge(base, nxt) ==
    [k \in DOMAIN base \cup DOMAIN nxt |->
        IF k \notin DOMAIN nxt THEN base[k]
        ELSE IF k \notin DOMAIN base THEN nxt[k]
        ELSE IF k = DERIVED_TABLE
        THEN [j \in DOMAIN base[k] \cup DOMAIN nxt[k] |->
                IF j \in DOMAIN nxt[k] THEN nxt[k][j] ELSE base[k][j]]
        ELSE nxt[k]]

\* LookMlIfCommentTransformer.__init__: the directive that is kept and the
\* directive that is removed with its line
IfDirective(environment) == IF Lower(<<environment>>) = <<"prod">> THEN "IfProd" ELSE "IfDev"

OtherIfDirective(environment) ==
    IF Lower(<<environment>>) = <<"prod">> THEN "IfDev" ELSE "IfProd"

\* re.IGNORECASE on a directive: IFDEV and IFPROD are "-- IF DEV --" and
\* "-- IF PROD --"
IgnoreCase(tok) ==
    CASE tok = "IFDEV" -> "IfDev"
      [] tok = "IFPROD" -> "IfProd"
      [] OTHER -> tok

\* the tokens that begin with "-- if"; IfOther is "-- if staging --"
IfTokens == {"IfDev", "IfProd", "IFDEV", "IFPROD", "IfOther"}

\* re.sub("-- if <other> --.*?(?=\n|-- if|$)", "", value, IGNORECASE | DOTALL)
RECURSIVE RemoveIfCommentLine(_, _, _)
RemoveIfCommentLine(value, other, dropping) ==
    IF Len(value) = 0 THEN <<>>
    ELSE IF IgnoreCase(value[1]) = other THEN RemoveIfCommentLine(Tail(value), other, TRUE)
    ELSE IF dropping /\ value[1] \notin {"NL"} \cup IfTokens
    THEN RemoveIfCommentLine(Tail(value), other, TRUE)
    ELSE <<value[1]>> \o RemoveIfCommentLine(Tail(value), other, FALSE)

\* re.sub(pattern, "", text, IGNORECASE) for a pattern that is one token
RemoveToken(value, tok) == SelectSeq(value, LAMBDA t : IgnoreCase(t) /= tok)

\* faulty variant: the marker of the configured environment stays in the text
LookMlIfComment_apply_regx_keeps_marker(value, config) ==
    RemoveIfCommentLine(value, OtherIfDirective(config.looker_environment), FALSE)

LookMlIfComment_apply_regx(value, config) ==
    RemoveToken(RemoveIfCommentLine(value, OtherIfDirective(config.looker_environment), FALSE),
                IfDirective(config.looker_environment))

\* A variable dictionary is a tree of mappings: a function from the path of
\* a node (the keys from the top) to "{}" for a nested mapping or to the
\* scalar held there.  {} is EmptyDict.
\* the special boolean variables a text can hold, each one token
SpecialVariables == {"v.f._is_selected", "v._in_query", "o._is_filtered"}

\* variable.split(".")
SpecialVariableKeys(variable) ==
    CASE variable = "v.f._is_selected" -> <<"v", "f", "_is_selected">>
      [] variable = "v._in_query" -> <<"v", "_in_query">>
      [] variable = "o._is_filtered" -> <<"o", "_is_filtered">>

\* the path in the dictionary that a token of the text reads
VariablePath(tok) == IF tok = "Var" THEN <<"x">> ELSE SpecialVariableKeys(tok)

\* create_template(text).render(liquid_variable): a variable renders as its
\* value, an undefined one as NULL
render(text, liquid_variable) ==
    [i \in 1..Len(text) |->
        IF text[i] \in {"Var"} \cup SpecialVariables
        THEN (IF VariablePath(text[i]) \in DOMAIN liquid_variable
              THEN liquid_variable[VariablePath(text[i])]
              ELSE "NULL")
        ELSE text[i]]

\* re.finditer(SPECIAL_VARIABLE_PATTERN, text), as a set
FindSpecialVariables(text) == Range(text) \cap SpecialVariables

\* the orders in which a Python set of strings can be iterated
IterationOrders(S) ==
    {order \in [1..Cardinality(S) -> S] : \A i, j \in 1..Cardinality(S) :
        order[i] = order[j] => i = j}

\* D.new is new_dict and D.own is self.liquid_variable.  {**d} copies the top
\* level only: a nested mapping that new_dict took from self.liquid_variable
\* is the same object in both, and a key set in it is set in both
SetKey(D, path, val) ==
    [D EXCEPT !.new = (path :> val) @@ D.new,
              !.own = IF Len(path) > 1 /\ <<path[1]>> \in DOMAIN D.own
                      THEN (path :> val) @@ D.own
                      ELSE D.own]

\* the body of `for variable in variables` from the key i of keys on:
\* current_dict is the node at the first i - 1 keys.  `in` and the item
\* assignment raise TypeError on a scalar
RECURSIVE SetDefault(_, _, _)
SetDefault(D, keys, i) ==
    LET current == SubSeq(keys, 1, i - 1)
        path == SubSeq(keys, 1, i)
    IN  IF current /= <<>> /\ D.new[current] /= "{}"
        THEN [D EXCEPT !.raised = TRUE]
        ELSE IF i = Len(keys)
        THEN (IF path \notin DOMAIN D.new THEN SetKey(D, path, "True") ELSE D)
        ELSE SetDefault(IF path \notin DOMAIN D.new THEN SetKey(D, path, "{}") ELSE D,
                        keys, i + 1)

\* SpecialVariable._create_new_liquid_variables_with_default, the variables
\* taken in the order given; an exception ends the loop
RECURSIVE _create_new_liquid_variables_with_default(_, _)
_create_new_liquid_variables_with_default(D, variables) ==
    IF variables = <<>> \/ D.raised THEN D
    ELSE _create_new_liquid_variables_with_default(
             SetDefault(D, SpecialVariableKeys(variables[1]), 1), Tail(variables))

\* SpecialVariable(liquid_variable).liquid_variable_with_default(text): new is
\* the dictionary returned, own is liquid_variable after the call
liquid_variable_with_default(text, liquid_variable, order) ==
    IF FindSpecialVariables(text) = {}
    THEN [new |-> liquid_variable, own |-> liquid_variable, raised |-> FALSE]
    ELSE _create_new_liquid_variables_with_default(
             [new |-> liquid_variable, own |-> liquid_variable, raised |-> FALSE], order)

\* LiquidSyntaxError and CustomTagException are caught: the text comes back.
\* val is the text returned, liquid_variable the dictionary after the
\* defaulting, own the caller's dictionary after the call
resolve_liquid_variable(text, liquid_variable, order) ==
    LET D == liquid_variable_with_default(text, liquid_variable, order)
    IN  IF D.raised
        THEN [val |-> <<>>, liquid_variable |-> <<>>, own |-> D.own, raised |-> TRUE]
        ELSE [val |-> IF \E i \in 1..Len(text) : text[i] = "Bad"
                      THEN text
                      ELSE render(text, D.new),
              liquid_variable |-> <<D.new>>,
              own |-> D.own,
              raised |-> FALSE]

\* re.sub(DERIVED_VIEW_PATTERN, r"\1", value)
DropDerivedViewPattern_apply(value) ==
    [i \in 1..Len(value) |-> IF value[i] = "Macro" THEN "Ref" ELSE value[i]]

\* re.search(r"SELECT\s", text, re.I) finds the letters "select" before a
\* whitespace: SELECT and select are the keyword with the whitespace after it
SearchSelect(text) == \E i \in 1..Len(text) : text[i] \in {"SELECT", "select"}

\* re.search(r"FROM\s", text, re.I): FROM and from are the keyword with the
\* whitespace after it, valid_from is a column name with a whitespace after
\* it, and FROM( is the keyword with a parenthesis right after it
SearchFrom(text) == \E i \in 1..Len(text) : text[i] \in {"FROM", "from", "valid_from"}

IncompleteSql_apply(value, view) ==
    LET with_select == IF SearchSelect(value) THEN value ELSE <<"SELECT">> \o value
    IN  IF SearchFrom(with_select)
        THEN with_select
        ELSE with_select \o <<"FROM", view[NAME]>>

\* the transformer stages, in the order of process_lookml_template_language
transformers ==
    <<"LookMlIfCommentTransformer", "LiquidVariableTransformer",
      "DropDerivedViewPatternTransformer", "IncompleteSqlTransformer">>

\* the _apply_transformation of each LookMLViewTransformer subclass
_apply_transformation(transformer, value, view, config) ==
    CASE transformer = "LookMlIfCommentTransformer" -> LookMlIfComment_apply_regx(value, config)
      [] transformer = "LiquidVariableTransformer" ->
            \* a text of SqlAlphabet holds no special boolean variable
            resolve_liquid_variable(value, config.liquid_variable, <<>>).val
      [] transformer = "DropDerivedViewPatternTransformer" -> DropDerivedViewPattern_apply(value)
      [] transformer = "IncompleteSqlTransformer" -> IncompleteSql_apply(value, view)

\* LookMLViewTransformer.transform: the partial update of one stage
transform(transformer, view, config) ==
    LET has_sql_table_name == SQL_TABLE_NAME \in DOMAIN view
        has_derived_sql == DERIVED_TABLE \in DOMAIN view /\ SQL \in DOMAIN view[DERIVED_TABLE]
        from_table_name ==
            IF has_sql_table_name
            THEN <<Get(view, DATAHUB_TRANSFORMED_SQL_TABLE_NAME, view[SQL_TABLE_NAME])>>
            ELSE <<>>
        value_to_transform ==
            IF has_derived_sql
            THEN <<Get(view[DERIVED_TABLE], DATAHUB_TRANSFORMED_SQL, view[DERIVED_TABLE][SQL])>>
            ELSE from_table_name
    IN  IF value_to_transform = <<>> THEN EmptyDict
        ELSE LET transformed_value ==
                     _apply_transformation(transformer, value_to_transform[1], view, config)
             IN  IF has_sql_table_name /\ value_to_transform[1] /= <<>>
                 THEN DATAHUB_TRANSFORMED_SQL_TABLE_NAME :> transformed_value
                 ELSE IF has_derived_sql /\ value_to_transform[1] /= <<>>
                 THEN DERIVED_TABLE :> (DATAHUB_TRANSFORMED_SQL :> transformed_value)
                 ELSE EmptyDict

\* the loop of TransformedLookMlView.view over the first n transformers
RECURSIVE RunTransformers(_, _, _)
RunTransformers(dict, n, config) ==
    IF n = 0 THEN dict
    ELSE LET before == RunTransformers(dict, n - 1, config)
         IN  Merge(before, transform(transformers[n], before, config))

\* faulty variant: the memoized result is not looked at
view_always_runs(t, config) ==
    LET merged == RunTransformers(t.view_dict, Len(transformers), config)
    IN  [transformed_dict |-> merged,
         view_dict |-> IF DERIVED_TABLE \in DOMAIN t.view_dict
                       THEN [t.view_dict EXCEPT ![DERIVED_TABLE] = merged[DERIVED_TABLE]]
                       ELSE t.view_dict,
         transform_calls |->
             [i \in 1..Len(transformers) |-> t.transform_calls[i] + 1]]

\* TransformedLookMlView.view on the instance t: the memoized result, or the
\* merged result of all stages; calls counts the transform of each stage
view(t, config) ==
    IF t.transformed_dict /= EmptyDict
    THEN t
    ELSE LET merged == RunTransformers(t.view_dict, Len(transformers), config)
         IN  [transformed_dict |-> merged,
              \* {**view_dict} copies the top level only: the derived_table
              \* mapping is shared, and the merge updates it in place
              view_dict |-> IF DERIVED_TABLE \in DOMAIN t.view_dict
                            THEN [t.view_dict EXCEPT ![DERIVED_TABLE] = merged[DERIVED_TABLE]]
                            ELSE t.view_dict,
              transform_calls |->
                  [i \in 1..Len(transformers) |-> t.transform_calls[i] + 1]]

\* the views of a file: a name, an optional sql_table_name and an optional
\* derived_table holding a sql or an explore_source
SqlTableNameParts ==
    {EmptyDict} \cup {SQL_TABLE_NAME :> t : t \in SeqsUpTo(SqlAlphabet, MaxNameLen)}

DerivedTableParts ==
    {EmptyDict, DERIVED_TABLE :> ("explore_source" :> <<"exp">>)}
        \cup {DERIVED_TABLE :> (SQL :> t) : t \in SeqsUpTo(SqlAlphabet, MaxSqlLen)}

ViewDicts == {(NAME :> VIEW_NAME) @@ a @@ b : a \in SqlTableNameParts, b \in DerivedTableParts}

SourceConfigs ==
    [looker_environment : {"dev", "prod"},
     liquid_variable : {EmptyDict, <<"x">> :> "Val"}]

VARIABLES
    source_config,     \* LookMLSourceConfig: looker_environment, liquid_variable
    original_view,     \* the view tree as it was handed to the pipeline
    view_dict,         \* TransformedLookMlView.view_dict, the input tree
    transformed_dict,  \* TransformedLookMlView.transformed_dict
    transform_calls,   \* calls of transform, per stage
    view_calls,        \* invocations of view()
    returned,          \* what the last view() returned
    first_returned     \* what the first view() returned

pipeline_vars ==
    <<source_config, original_view, view_dict, transformed_dict, transform_calls,
      view_calls, returned, first_returned>>

\* one function called on its own
VARIABLES
    call_args,         \* the arguments the function is called with
    call_value,        \* what the last call returned, <<>> before the first
    call_count         \* calls made

call_vars == <<call_args, call_value, call_count>>

NoCall == call_args = EmptyDict /\ call_value = <<>> /\ call_count = 0

\* ------------------------------------------- operations on the one instance
\* the parser is asked only by the first __get_spr of an instance that parses
ParserAnswers ==
    IF parse_table_names_from_sql /\ self.spr_cache = <<>>
    THEN ParserResults
    ELSE {[in_tables |-> <<>>, column_lineage |-> <<>>, table_error |-> FALSE,
           column_error |-> FALSE]}

\* the caller gets r.val (or the exception); the instance keeps r.m
Finish(r, op, field_name) ==
    /\ self' = r.m.self
    /\ reporter' = r.m.reporter
    /\ parser_calls' = r.m.parser_calls
    /\ lookup_calls' = r.m.lookup_calls
    /\ fqn_calls' = r.m.fqn_calls
    /\ spr_raw' = r.m.spr_raw
    /\ calls' = calls + 1
    /\ result' = [op |-> op, field |-> field_name, val |-> r.val, raised |-> r.raised]
    /\ urn_returns' = IF op = "get_upstream_dataset_urn" /\ ~r.raised
                      THEN urn_returns \cup {r.val}
                      ELSE urn_returns
    /\ UNCHANGED <<view_context, parse_table_names_from_sql, looker_view_id_cache,
                   view_upstream>>
    /\ UNCHANGED pipeline_vars
    /\ UNCHANGED call_vars

CanCall(cls) == view_upstream = cls /\ calls < MaxCalls

CreateViewUpstream ==
    /\ view_upstream = "none"
    /\ view_upstream' = create_view_upstream(view_context).cls
    /\ reporter' = reporter \o create_view_upstream(view_context).warnings
    /\ self' = NewInstance
    /\ UNCHANGED <<view_context, parse_table_names_from_sql, looker_view_id_cache,
                   parser_calls, lookup_calls, fqn_calls, spr_raw, calls, result,
                   urn_returns>>
    /\ UNCHANGED pipeline_vars
    /\ UNCHANGED call_vars

SqlGetUpstreamDatasetUrn ==
    /\ CanCall("SqlBasedDerivedViewUpstream")
    /\ \E raw \in ParserAnswers :
          Finish(Sql_get_upstream_dataset_urn(Machine, raw), "get_upstream_dataset_urn", "-")

SqlGetUpstreamColumnRef ==
    /\ CanCall("SqlBasedDerivedViewUpstream")
    /\ \E raw \in ParserAnswers, f \in FieldContexts :
          Finish(Sql_get_upstream_column_ref(Machine, f, raw), "get_upstream_column_ref", f.name)

SqlCreateFields ==
    /\ CanCall("SqlBasedDerivedViewUpstream")
    /\ \E raw \in ParserAnswers :
          Finish(Sql_create_fields(Machine, raw), "create_fields", "-")

NativeGetUpstreamDatasetUrn ==
    /\ CanCall("NativeDerivedViewUpstream")
    /\ Finish(Native_get_upstream_dataset_urn(Machine), "get_upstream_dataset_urn", "-")

NativeGetUpstreamColumnRef ==
    /\ CanCall("NativeDerivedViewUpstream")
    /\ \E f \in FieldContexts :
          Finish(Native_get_upstream_column_ref(Machine, f), "get_upstream_column_ref", f.name)

RegularGetUpstreamDatasetUrn ==
    /\ CanCall("RegularViewUpstream")
    /\ Finish(Regular_get_upstream_dataset_urns(Machine), "get_upstream_dataset_urn", "-")

RegularGetUpstreamColumnRef ==
    /\ CanCall("RegularViewUpstream")
    /\ \E f \in FieldContexts :
          Finish(Regular_get_upstream_column_ref(Machine, f), "get_upstream_column_ref", f.name)

DotGetUpstreamDatasetUrn ==
    /\ CanCall("DotSqlTableNameViewUpstream")
    /\ Finish(Dot_get_upstream_dataset_urn(Machine), "get_upstream_dataset_urn", "-")

DotGetUpstreamColumnRef ==
    /\ CanCall("DotSqlTableNameViewUpstream")
    /\ \E f \in FieldContexts :
          Finish(Dot_get_upstream_column_ref(Machine, f), "get_upstream_column_ref", f.name)

EmptyGetUpstreamDatasetUrn ==
    /\ CanCall("EmptyImplementation")
    /\ Finish(Empty_get_upstream_dataset_urn(Machine), "get_upstream_dataset_urn", "-")

EmptyGetUpstreamColumnRef ==
    /\ CanCall("EmptyImplementation")
    /\ \E f \in FieldContexts :
          Finish(Empty_get_upstream_column_ref(Machine, f), "get_upstream_column_ref", f.name)

AbstractCreateFields ==
    /\ view_upstream \in Strategies \ {"SqlBasedDerivedViewUpstream"}
    /\ calls < MaxCalls
    /\ Finish(Abstract_create_fields(Machine), "create_fields", "-")

\* TransformedLookMlView(transformers, view_dict).view()
View ==
    /\ view_calls < MaxViewCalls
    /\ LET t == view([view_dict |-> view_dict, transformed_dict |-> transformed_dict,
                      transform_calls |-> transform_calls], source_config)
       IN  /\ transformed_dict' = t.transformed_dict
           /\ view_dict' = t.view_dict
           /\ transform_calls' = t.transform_calls
           /\ returned' = t.transformed_dict
           /\ first_returned' = IF view_calls = 0 THEN t.transformed_dict ELSE first_returned
    /\ view_calls' = view_calls + 1
    /\ UNCHANGED <<source_config, original_view>>
    /\ UNCHANGED upstream_vars
    /\ UNCHANGED call_vars

vars == <<upstream_vars, pipeline_vars, call_vars>>

\* TransformedLookMlView.__init__ on the view v
NewTransformedView(v) ==
    /\ original_view = v
    /\ view_dict = v
    /\ transformed_dict = EmptyDict
    /\ transform_calls = [i \in 1..Len(transformers) |-> 0]
    /\ view_calls = 0
    /\ returned = EmptyDict
    /\ first_returned = EmptyDict

InitUpstream(contexts) ==
    /\ view_context \in contexts
    /\ parse_table_names_from_sql \in BOOLEAN
    /\ looker_view_id_cache \in SUBSET {VIEW_NAME, DERIVED_VIEW}
    /\ view_upstream = "none"
    /\ self = NewInstance
    /\ reporter = <<>>
    /\ parser_calls = 0
    /\ lookup_calls = 0
    /\ fqn_calls = 0
    /\ spr_raw = <<>>
    /\ calls = 0
    /\ result = NoResult
    /\ urn_returns = {}
    /\ source_config = [looker_environment |-> "prod", liquid_variable |-> EmptyDict]
    /\ NewTransformedView(NAME :> VIEW_NAME)
    /\ NoCall

\* the views that match at most one structural pattern
OnePatternContexts ==
    {vc \in ViewContexts :
        Cardinality({k \in DOMAIN vc.preds : vc.preds[k]}) <= 1}

\* one strategy instance, created for a view and then called
Init == InitUpstream(OnePatternContexts)

Next ==
    \/ CreateViewUpstream
    \/ SqlGetUpstreamDatasetUrn
    \/ SqlGetUpstreamColumnRef
    \/ SqlCreateFields
    \/ NativeGetUpstreamDatasetUrn
    \/ NativeGetUpstreamColumnRef
    \/ RegularGetUpstreamDatasetUrn
    \/ RegularGetUpstreamColumnRef
    \/ DotGetUpstreamDatasetUrn
    \/ DotGetUpstreamColumnRef
    \/ EmptyGetUpstreamDatasetUrn
    \/ EmptyGetUpstreamColumnRef
    \/ AbstractCreateFields

Spec == Init /\ [][Next]_vars

\* the selector alone, over every combination of the predicates
InitSelect == InitUpstream(ViewContexts)

NextSelect == CreateViewUpstream

SpecSelect == InitSelect /\ [][NextSelect]_vars

\* the template pipeline on one view of a file
InitPipeline ==
    /\ source_config \in SourceConfigs
    /\ \E v \in ViewDicts : NewTransformedView(v)
    /\ view_context = CHOOSE vc \in ViewContexts : \A k \in DOMAIN vc.preds : ~vc.preds[k]
    /\ parse_table_names_from_sql = FALSE
    /\ looker_view_id_cache = {}
    /\ view_upstream = "none"
    /\ self = NewInstance
    /\ reporter = <<>>
    /\ parser_calls = 0
    /\ lookup_calls = 0
    /\ fqn_calls = 0
    /\ spr_raw = <<>>
    /\ calls = 0
    /\ result = NoResult
    /\ urn_returns = {}
    /\ NoCall

NextPipeline == View

SpecPipeline == InitPipeline /\ [][NextPipeline]_vars

\* ------------------------------------------- functions called on their own
\* no strategy instance and no view in the pipeline
NoUpstream ==
    /\ view_context = CHOOSE vc \in ViewContexts : \A k \in DOMAIN vc.preds : ~vc.preds[k]
    /\ parse_table_names_from_sql = FALSE
    /\ looker_view_id_cache = {}
    /\ view_upstream = "none"
    /\ self = NewInstance
    /\ reporter = <<>>
    /\ parser_calls = 0
    /\ lookup_calls = 0
    /\ fqn_calls = 0
    /\ spr_raw = <<>>
    /\ calls = 0
    /\ result = NoResult
    /\ urn_returns = {}

NoPipeline ==
    /\ source_config = [looker_environment |-> "prod", liquid_variable |-> EmptyDict]
    /\ NewTransformedView(NAME :> VIEW_NAME)

\* raw names: segments of the tokens T and a, separated by "."
RawNames == SeqsUpTo({"T", "a", "."}, MaxRawLen)

\* LookerConnectionDefinition with a one-segment default_db and default_schema
QualifyConnections ==
    [platform : {"hive", "mysql", "athena", "snowflake", "bigquery"},
     default_db : {<<"DB">>},
     default_schema : {<<"sch">>}]

InitQualify ==
    /\ NoUpstream
    /\ NoPipeline
    /\ call_args \in [sql_table_name : RawNames, connection_def : QualifyConnections]
    /\ call_value = <<>>
    /\ call_count = 0

\* _generate_fully_qualified_name(sql_table_name, connection_def, reporter)
GenerateFullyQualifiedName ==
    /\ call_value = <<>>
    /\ LET r == _generate_fully_qualified_name(call_args.sql_table_name,
                                               call_args.connection_def)
       IN  /\ call_value' = <<r.name>>
           /\ reporter' = reporter \o r.warnings
    /\ fqn_calls' = fqn_calls + 1
    /\ call_count' = call_count + 1
    /\ UNCHANGED <<view_context, parse_table_names_from_sql, looker_view_id_cache,
                   view_upstream, self, parser_calls, lookup_calls, spr_raw, calls,
                   result, urn_returns>>
    /\ UNCHANGED <<call_args, pipeline_vars>>

NextQualify == GenerateFullyQualifiedName

SpecQualify == InitQualify /\ [][NextQualify]_vars

\* texts of directives in either case, newlines and other text
IfTexts == SeqsUpTo(IfTokens \cup {"NL", "w"}, MaxIfLen)

InitIfComment ==
    /\ NoUpstream
    /\ NoPipeline
    /\ call_args \in [value : IfTexts, looker_environment : {"dev", "prod"}]
    /\ call_value = <<>>
    /\ call_count = 0

\* LookMlIfCommentTransformer(source_config)._apply_transformation(value, view)
LookMlIfCommentApply ==
    /\ call_value = <<>>
    /\ call_value' = <<LookMlIfComment_apply_regx(call_args.value, call_args)>>
    /\ call_count' = call_count + 1
    /\ UNCHANGED <<call_args, upstream_vars, pipeline_vars>>

NextIfComment == LookMlIfCommentApply

SpecIfComment == InitIfComment /\ [][NextIfComment]_vars

\* SQL fragments: keywords in either case, a column name that ends in
\* "from", a FROM with no whitespace after it, other text
Fragments ==
    SeqsUpTo({"SELECT", "select", "FROM", "from", "valid_from", "FROM(", "w"}, MaxFragmentLen)

InitCompletion ==
    /\ NoUpstream
    /\ NoPipeline
    /\ call_args \in [value : Fragments, view : {NAME :> n : n \in {VIEW_NAME, "orders"}}]
    /\ call_value = <<>>
    /\ call_count = 0

\* IncompleteSqlTransformer(source_config)._apply_transformation(value, view)
IncompleteSqlApply ==
    /\ call_value = <<>>
    /\ call_value' = <<IncompleteSql_apply(call_args.value, call_args.view)>>
    /\ call_count' = call_count + 1
    /\ UNCHANGED <<call_args, upstream_vars, pipeline_vars>>

NextCompletion == IncompleteSqlApply

SpecCompletion == InitCompletion /\ [][NextCompletion]_vars

\* the nodes a configured variable dictionary can have
ConfiguredPaths ==
    {<<"x">>, <<"v">>, <<"v", "f">>, <<"v", "f", "_is_selected">>, <<"v", "_in_query">>}

\* the configured variable dictionaries: a node is a nested mapping or a
\* scalar, and only a nested mapping has nodes below it
ConfiguredDictionaries ==
    {d \in UNION {[P -> {"{}", "Val"}] : P \in SUBSET ConfiguredPaths} :
        \A p \in DOMAIN d :
            /\ Len(p) > 1 =>
                  /\ SubSeq(p, 1, Len(p) - 1) \in DOMAIN d
                  /\ d[SubSeq(p, 1, Len(p) - 1)] = "{}"
            /\ p = <<"x">> => d[p] = "Val"}

\* texts of special boolean variables, a plain variable, a tag the engine
\* cannot parse and other text
ResolveTexts ==
    SeqsUpTo(SpecialVariables \cup {"Var", "Bad", "w"}, MaxResolveLen)

InitResolve ==
    /\ NoUpstream
    /\ NewTransformedView(NAME :> VIEW_NAME)
    /\ \E d \in ConfiguredDictionaries :
          /\ source_config = [looker_environment |-> "prod", liquid_variable |-> d]
          /\ call_args = [configured |-> d, text |-> <<>>]
    /\ call_value = <<>>
    /\ call_count = 0

\* resolve_liquid_variable(text, source_config.liquid_variable), as
\* LiquidVariableTransformer._apply_transformation calls it for one view
ResolveLiquidVariable ==
    /\ call_count < MaxResolveCalls
    /\ \E text \in ResolveTexts :
          \E order \in IterationOrders(FindSpecialVariables(text)) :
              LET r == resolve_liquid_variable(text, source_config.liquid_variable, order)
              IN  /\ call_value' = <<[val |-> r.val, liquid_variable |-> r.liquid_variable,
                                     raised |-> r.raised]>>
                  /\ source_config' = [source_config EXCEPT !.liquid_variable = r.own]
                  /\ call_args' = [call_args EXCEPT !.text = text]
    /\ call_count' = call_count + 1
    /\ UNCHANGED <<original_view, view_dict, transformed_dict, transform_calls,
                   view_calls, returned, first_returned>>
    /\ UNCHANGED upstream_vars

NextResolve == ResolveLiquidVariable

SpecResolve == InitResolve /\ [][NextResolve]_vars

\* ------------------------------------------------------------- properties
FieldByName(name) == CHOOSE f \in FieldContexts : f.name = name

IsSql == view_upstream = "SqlBasedDerivedViewUpstream"

ParseFailed == spr_raw /= <<>> /\ (spr_raw[1].table_error \/ spr_raw[1].column_error)

ParseSucceeded == spr_raw /= <<>> /\ ~spr_raw[1].table_error /\ ~spr_raw[1].column_error

\* the predicate of each strategy, in the documented priority order
PriorityOrder ==
    <<"RegularViewUpstream", "DotSqlTableNameViewUpstream", "SqlBasedDerivedViewUpstream",
      "NativeDerivedViewUpstream">>

PredicateOf(cls, p) ==
    CASE cls = "RegularViewUpstream" -> p.is_regular_case
      [] cls = "DotSqlTableNameViewUpstream" -> p.is_sql_table_name_referring_to_view
      [] cls = "SqlBasedDerivedViewUpstream" ->
            p.is_sql_based_derived_case \/ p.is_sql_based_derived_view_without_fields_case
      [] cls = "NativeDerivedViewUpstream" -> p.is_native_derived_case

\* C1: create_view_upstream always returns (it is enabled on every view
\* context), the strategy is the first of Regular, Dot-Reference, SQL-Derived,
\* Explore-Derived whose predicate holds, and it is EmptyImplementation, with
\* exactly one warning keyed by the view file name, iff no predicate holds.
C1_SelectionTotal ==
    LET p == view_context.preds
        holding == {i \in 1..4 : PredicateOf(PriorityOrder[i], p)}
        first == CHOOSE i \in holding : \A j \in holding : i <= j
    IN  /\ view_upstream = "none" => ENABLED CreateViewUpstream
        /\ view_upstream /= "none" =>
              /\ view_upstream \in Strategies
              /\ holding /= {} => view_upstream = PriorityOrder[first] /\ reporter = <<>>
              /\ holding = {} => view_upstream = "EmptyImplementation"
                                 /\ reporter = <<VIEW_FILE_NAME>>
              /\ (view_upstream = "EmptyImplementation") <=> (\A k \in DOMAIN p : ~p[k])

\* several predicates hold and the priority decides
C1_Witness ==
    /\ view_upstream = "DotSqlTableNameViewUpstream"
    /\ view_context.preds.is_sql_based_derived_case
    /\ view_context.preds.is_native_derived_case

\* C2: on one strategy instance the dataset-level resolution work (name
\* normalisation, View Identity Cache lookup, SQL parsing) happens at most
\* once, whatever list the first resolution produced: after any call that
\* returned, each collaborator has been invoked at most once.
C2_ResolvedAtMostOnce ==
    (result.op /= "none" /\ ~result.raised)
        => fqn_calls <= 1 /\ lookup_calls <= 1 /\ parser_calls <= 1

\* C3: on a SQL-Derived instance the parser is called at most once: once if
\* parsing is enabled and an operation was called, never if it is disabled;
\* and get_upstream_dataset_urn always returns the same list.
C3_ParserCalledOnce ==
    IsSql =>
        /\ parser_calls <= 1
        /\ (parse_table_names_from_sql /\ calls >= 1) => parser_calls = 1
        /\ ~parse_table_names_from_sql => parser_calls = 0
        /\ Cardinality(urn_returns) <= 1

\* the parse failed, and the instance was called again
C3_Witness ==
    /\ IsSql /\ calls >= 2 /\ parser_calls = 1 /\ ParseFailed
    /\ result.op = "get_upstream_dataset_urn" /\ urn_returns /= {}

\* C4: on a SQL-Derived instance, when the parse result carries a table-level
\* or a column-level error or parsing is disabled, every operation returns
\* the empty list and does not raise.
C4_FailedParseIsEmpty ==
    (IsSql /\ result.op /= "none" /\ (ParseFailed \/ ~parse_table_names_from_sql))
        => result.val = <<>> /\ ~result.raised

\* a column-level error alone, on a result that resolved tables and edges
C4_Witness ==
    /\ IsSql /\ result.op = "get_upstream_column_ref" /\ spr_raw /= <<>>
    /\ spr_raw[1].column_error /\ ~spr_raw[1].table_error
    /\ spr_raw[1].in_tables /= <<>> /\ spr_raw[1].column_lineage /= <<>>

\* the view a strategy looks up in the View Identity Cache
LookedUpView ==
    IF view_upstream = "DotSqlTableNameViewUpstream" THEN DERIVED_VIEW ELSE VIEW_NAME

CacheMiss(cls) ==
    /\ view_upstream = cls
    /\ result.op \in {"get_upstream_dataset_urn", "get_upstream_column_ref"}
    /\ LookedUpView \notin looker_view_id_cache

\* C5 as stated: after a cache miss both operations of a Dot-Reference and of
\* an Explore-Derived strategy return the empty list and nothing is raised.
C5_MissIsSoft ==
    (CacheMiss("DotSqlTableNameViewUpstream") \/ CacheMiss("NativeDerivedViewUpstream"))
        => result.val = <<>> /\ ~result.raised

\* C5 amended: a miss is soft for the Dot-Reference strategy; the
\* Explore-Derived strategy asserts that its own view is cached, and both of
\* its operations raise on a miss.
C5_MissIsSoftForDotReference ==
    /\ CacheMiss("DotSqlTableNameViewUpstream") => result.val = <<>> /\ ~result.raised
    /\ CacheMiss("NativeDerivedViewUpstream") => result.raised

C5_Witness ==
    /\ CacheMiss("DotSqlTableNameViewUpstream")
    /\ result.op = "get_upstream_column_ref"
    /\ FieldByName(result.field).cols /= <<>>

\* C6: after a successful parse, get_upstream_column_ref(field) is the
\* upstreams of the first edge whose downstream column is the field's name
\* when that list is not empty; otherwise one ColumnRef on the first element
\* of get_upstream_dataset_urn() per column of the field's SQL when that list
\* is not empty; otherwise empty; each passed through derived-view resolution.
C6_ColumnRefs ==
    (IsSql /\ result.op = "get_upstream_column_ref" /\ ParseSucceeded) =>
        LET edges == spr_raw[1].column_lineage
            matching == {i \in 1..Len(edges) : edges[i].downstream.column = result.field}
            first == CHOOSE i \in matching : \A j \in matching : i <= j
            parsed == IF matching = {} THEN <<>> ELSE edges[first].upstreams
            datasets == self.urn_cache[1]
            cols == FieldByName(result.field).cols
            expected ==
                IF parsed /= <<>> THEN parsed
                ELSE IF datasets /= <<>>
                THEN [i \in 1..Len(cols) |-> [table |-> datasets[1], column |-> cols[i]]]
                ELSE <<>>
        IN  /\ ~result.raised
            /\ self.urn_cache /= <<>>
            /\ result.val = resolve_derived_view_urn_of_col_ref(expected, looker_view_id_cache)

\* the first matching edge has no upstreams, a later one has: the field's
\* columns go to the first of two datasets
C6_Witness ==
    /\ IsSql /\ result.op = "get_upstream_column_ref" /\ ParseSucceeded
    /\ result.field = "f1"
    /\ Len(spr_raw[1].column_lineage) = 2
    /\ spr_raw[1].column_lineage[1].downstream.column = "f1"
    /\ spr_raw[1].column_lineage[1].upstreams = <<>>
    /\ spr_raw[1].column_lineage[2].downstream.column = "f1"
    /\ spr_raw[1].column_lineage[2].upstreams /= <<>>
    /\ Len(self.urn_cache[1]) = 2
    /\ Len(result.val) = 2
    /\ result.val[1].table = self.urn_cache[1][1]

\* ---------------------------------------------- properties of the pipeline
HasSqlTableName(v) == SQL_TABLE_NAME \in DOMAIN v

HasDerivedSql(v) == DERIVED_TABLE \in DOMAIN v /\ SQL \in DOMAIN v[DERIVED_TABLE]

\* Optional: the value under the transformed key of each location
TransformedSqlTableName(v) ==
    IF DATAHUB_TRANSFORMED_SQL_TABLE_NAME \in DOMAIN v
    THEN <<v[DATAHUB_TRANSFORMED_SQL_TABLE_NAME]>>
    ELSE <<>>

TransformedDerivedSql(v) ==
    IF DERIVED_TABLE \in DOMAIN v /\ DATAHUB_TRANSFORMED_SQL \in DOMAIN v[DERIVED_TABLE]
    THEN <<v[DERIVED_TABLE][DATAHUB_TRANSFORMED_SQL]>>
    ELSE <<>>

WithoutKey(d, k) == [j \in DOMAIN d \ {k} |-> d[j]]

\* SqlCompletion(MacroStrip(Templating(IfComment(text))))
Composed(text) ==
    IncompleteSql_apply(
        DropDerivedViewPattern_apply(
            resolve_liquid_variable(
                LookMlIfComment_apply_regx(text, source_config),
                source_config.liquid_variable, <<>>).val),
        original_view)


\* the locations of the view v that hold SQL text
NonEmptyLocations(v) ==
    (IF HasSqlTableName(v) /\ v[SQL_TABLE_NAME] /= <<>> THEN {SQL_TABLE_NAME} ELSE {})
        \cup (IF HasDerivedSql(v) /\ v[DERIVED_TABLE][SQL] /= <<>> THEN {SQL} ELSE {})

\* C7: after view(), the transformed value of every location of the view
\* that holds SQL text is SqlCompletion(MacroStrip(Templating(IfComment(
\* original value)))), an empty intermediate output included.
C7_StagesComposeInOrder ==
    view_calls >= 1 =>
        /\ SQL_TABLE_NAME \in NonEmptyLocations(original_view) =>
              TransformedSqlTableName(returned) = <<Composed(original_view[SQL_TABLE_NAME])>>
        /\ SQL \in NonEmptyLocations(original_view) =>
              TransformedDerivedSql(returned) = <<Composed(original_view[DERIVED_TABLE][SQL])>>

\* C8: the two locations are transformed independently: for a view with both,
\* what is stored under each location's transformed key is what the pipeline
\* stores for that location's text when the other location is not there; a
\* view with one location gets only that location's transformed key; a view
\* with neither is returned as it is.
C8_LocationsIndependent ==
    view_calls >= 1 =>
        LET v == original_view
            alone(k) == RunTransformers(WithoutKey(v, k), Len(transformers), source_config)
        IN  /\ (HasSqlTableName(v) /\ HasDerivedSql(v)) =>
                  /\ TransformedSqlTableName(returned)
                        = TransformedSqlTableName(alone(DERIVED_TABLE))
                  /\ TransformedDerivedSql(returned)
                        = TransformedDerivedSql(alone(SQL_TABLE_NAME))
            /\ (HasSqlTableName(v) /\ ~HasDerivedSql(v)) => TransformedDerivedSql(returned) = <<>>
            /\ (~HasSqlTableName(v) /\ HasDerivedSql(v)) => TransformedSqlTableName(returned) = <<>>
            /\ (~HasSqlTableName(v) /\ ~HasDerivedSql(v)) => returned = v

\* the original SQL fields of the tree d are those of the original view
OriginalsKeptIn(d) ==
    /\ HasSqlTableName(original_view) =>
          HasSqlTableName(d) /\ d[SQL_TABLE_NAME] = original_view[SQL_TABLE_NAME]
    /\ HasDerivedSql(original_view) =>
          HasDerivedSql(d) /\ d[DERIVED_TABLE][SQL] = original_view[DERIVED_TABLE][SQL]

\* after any number of stages and after view(), in the returned tree and in
\* the input tree
OriginalsKept ==
    /\ \A n \in 0..Len(transformers) :
          OriginalsKeptIn(RunTransformers(original_view, n, source_config))
    /\ OriginalsKeptIn(view_dict)
    /\ view_calls >= 1 => OriginalsKeptIn(returned)

\* C9: the pipeline never overwrites an original SQL field, and for a view
\* with exactly one non-empty SQL-bearing location the returned tree holds
\* the original value and, under that location's transformed key, its
\* transformed value.
C9_OriginalsKeptAndCoexist ==
    /\ OriginalsKept
    /\ (view_calls >= 1 /\ NonEmptyLocations(original_view) = {SQL_TABLE_NAME})
          => TransformedSqlTableName(returned) /= <<>>
    /\ (view_calls >= 1 /\ NonEmptyLocations(original_view) = {SQL})
          => TransformedDerivedSql(returned) /= <<>>

\* C10: over any number of invocations of view() every stage's transform is
\* called exactly once, and every invocation returns what the first returned.
C10_ViewMemoized ==
    view_calls >= 1 =>
        /\ \A i \in 1..Len(transformers) : transform_calls[i] = 1
        /\ returned = first_returned
        /\ transformed_dict = first_returned

\* a second invocation, on a view whose stages had something to transform
C10_Witness ==
    /\ view_calls >= 2
    /\ TransformedDerivedSql(returned) /= <<>>
    /\ returned[DERIVED_TABLE][DATAHUB_TRANSFORMED_SQL] /= original_view[DERIVED_TABLE][SQL]

\* ---------------------------------------------------- name qualification
\* the segments the reference mapping gives for the segments segs of a name
\* of at most 3 segments
ReferenceSegments(segs, connection_def) ==
    LET two == connection_def.platform \in {"hive", "mysql", "athena"}
        db == connection_def.default_db
        schema == connection_def.default_schema
    IN  CASE Len(segs) = 1 -> IF two THEN <<db>> \o segs ELSE <<db, schema>> \o segs
          [] Len(segs) = 2 -> IF two THEN segs ELSE <<db>> \o segs
          [] Len(segs) = 3 -> IF two THEN Tail(segs) ELSE segs

CanonicalSegmentCount(connection_def) ==
    IF connection_def.platform \in {"hive", "mysql", "athena"} THEN 2 ELSE 3

\* C11: _generate_fully_qualified_name equals the reference mapping: names of
\* 1 to 3 segments come back with the platform's canonical segment count and
\* no warning, a name of more than 3 segments comes back as it is with one
\* warning naming it, and the output is always lowercased.
C11_QualifiedNameIsReference ==
    call_value /= <<>> =>
        LET name == call_args.sql_table_name
            segs == Split(name)
            out == call_value[1]
        IN  /\ \A i \in 1..Len(out) : out[i] \notin {"T", "DB"}
            /\ Len(segs) <= 3 =>
                  /\ out = Lower(Join(ReferenceSegments(segs, call_args.connection_def)))
                  /\ Len(Split(out)) = CanonicalSegmentCount(call_args.connection_def)
                  /\ reporter = <<>>
            /\ Len(segs) > 3 =>
                  /\ out = Lower(name)
                  /\ reporter = <<name>>

\* a 3-segment name with an upper-case table was qualified for a 2-part platform
C11_Witness ==
    /\ call_value /= <<>>
    /\ "sql_table_name" \in DOMAIN call_args
    /\ call_args.sql_table_name = <<"a", ".", "a", ".", "T">>
    /\ call_args.connection_def.platform = "athena"
    /\ call_value[1] = <<"a", ".", "t">>

\* ------------------------------------------------- conditional comments
\* the directive of the environment that is not the configured one
IsOtherDirective(tok, environment) ==
    IgnoreCase(tok) = (IF environment = "prod" THEN "IfDev" ELSE "IfProd")

IsOwnDirective(tok, environment) ==
    IgnoreCase(tok) = (IF environment = "prod" THEN "IfProd" ELSE "IfDev")

\* position i of the text follows a directive of the other environment with
\* no newline and no directive in between, itself included
InOtherLine(text, i, environment) ==
    \E j \in 1..(i - 1) :
        /\ IsOtherDirective(text[j], environment)
        /\ \A k \in (j + 1)..i : text[k] \notin {"NL"} \cup IfTokens

\* the positions of the text that the evaluation keeps
KeptPositions(text, environment) ==
    {i \in 1..Len(text) :
        /\ ~IsOtherDirective(text[i], environment)
        /\ ~IsOwnDirective(text[i], environment)
        /\ ~InOtherLine(text, i, environment)}

\* the subsequence of the text at the positions of the set P
RECURSIVE Restrict(_, _, _)
Restrict(text, P, i) ==
    IF i > Len(text) THEN <<>>
    ELSE (IF i \in P THEN <<text[i]>> ELSE <<>>) \o Restrict(text, P, i + 1)

\* C12: the evaluation deletes every directive of the other environment with
\* the text after it up to the next newline, directive or end, deletes only
\* the marker of every directive of the configured environment, and leaves
\* the rest as it is, whatever the case of the directive.
C12_IfCommentEvaluation ==
    call_value /= <<>> =>
        call_value[1] =
            Restrict(call_args.value,
                     KeptPositions(call_args.value, call_args.looker_environment), 1)

\* an upper-case directive of the other environment was deleted up to the
\* directive of the configured environment, whose content stayed
C12_Witness ==
    /\ call_value /= <<>>
    /\ "value" \in DOMAIN call_args
    /\ call_args.looker_environment = "prod"
    /\ call_args.value = <<"IFDEV", "w", "IfProd", "w">>
    /\ call_value[1] = <<"w">>

\* --------------------------------------------------------- SQL completion
\* the fragment holds the SELECT keyword, the FROM keyword, in either case
HasSelectKeyword(v) == \E i \in 1..Len(v) : v[i] \in {"SELECT", "select"}

HasFromKeyword(v) == \E i \in 1..Len(v) : v[i] \in {"FROM", "from", "FROM("}

\* C13: the completed SQL is the fragment with SELECT prepended if and only
\* if the fragment holds no SELECT keyword and FROM <view name> appended if
\* and only if it holds no FROM keyword; the fragment itself is not altered.
C13_SqlCompletion ==
    call_value /= <<>> =>
        LET v == call_args.value
        IN  call_value[1] =
                (IF HasSelectKeyword(v) THEN <<>> ELSE <<"SELECT">>)
                    \o v
                    \o (IF HasFromKeyword(v) THEN <<>> ELSE <<"FROM", call_args.view[NAME]>>)

\* ------------------------------------------- special boolean variables
\* the paths of the special boolean variables of the text
SpecialPaths(text) == {SpecialVariableKeys(t) : t \in FindSpecialVariables(text)}

\* the paths on the way to a special boolean variable of the text
SpecialPrefixes(text) ==
    UNION {{SubSeq(p, 1, n) : n \in 1..(Len(p) - 1)} : p \in SpecialPaths(text)}

\* C14: on the first resolution against a configuration, the dictionary
\* after the defaulting holds every special boolean path of the text, True
\* where the path was not configured and the configured value where it was,
\* with the nested mappings on the way; every other entry is the configured
\* one; without such a path it is the configured dictionary; and the
\* defaulting does not raise.
C14_DefaultsSynthesized ==
    call_count = 1 =>
        /\ ~call_value[1].raised
        /\ LET configured == call_args.configured
               handed == call_value[1].liquid_variable[1]
           IN  /\ \A p \in SpecialPaths(call_args.text) :
                     /\ p \in DOMAIN handed
                     /\ handed[p] = IF p \in DOMAIN configured THEN configured[p] ELSE "True"
               /\ \A p \in SpecialPrefixes(call_args.text) :
                     p \in DOMAIN handed /\ handed[p] = "{}"
               /\ \A p \in DOMAIN handed \ (SpecialPaths(call_args.text)
                                                \cup SpecialPrefixes(call_args.text)) :
                     p \in DOMAIN configured
               /\ \A p \in DOMAIN configured : p \in DOMAIN handed /\ handed[p] = configured[p]
               /\ SpecialPaths(call_args.text) = {} => handed = configured

\* C15: resolving texts leaves the configured variable dictionary as it was
\* configured, at every nesting level.
C15_ConfigurationUnchanged ==
    source_config.liquid_variable = call_args.configured

\* ------------------------------------------------------- the hive fixup
\* the reference without its redundant leading "hive." segment
DropLeadingHive(urn) ==
    IF urn.platform = "hive" /\ Len(urn.name) >= 2 /\ urn.name[1] = "hive" /\ urn.name[2] = "."
    THEN [urn EXCEPT !.name = SubSeq(urn.name, 3, Len(urn.name))]
    ELSE urn

\* a reference that derived-view resolution leaves as it is
NotOfAView(urn) == urn.platform /= "looker" /\ ~is_derived_view(urn)

\* C16: after a successful parse the hive fixup is applied to every result
\* alike: the table of a ColumnRef whose dataset is among the parser's
\* in-tables is one of the references of get_upstream_dataset_urn(), the
\* upstream fields of create_fields() are fixed up too, and the fixup takes
\* away the leading "hive." segment and nothing else.
C16_HiveFixupConsistent ==
    (IsSql /\ ParseSucceeded /\ ~result.raised) =>
        LET in_tables == spr_raw[1].in_tables
            edges == spr_raw[1].column_lineage
        IN  /\ result.op = "get_upstream_column_ref" =>
                  \A i \in 1..Len(result.val) :
                      LET t == result.val[i].table
                      IN  (/\ NotOfAView(t)
                           /\ \E j \in 1..Len(in_tables) :
                                  DropLeadingHive(in_tables[j]) = DropLeadingHive(t))
                              => t \in Range(self.urn_cache[1])
            /\ result.op = "create_fields" =>
                  \A i \in 1..Len(result.val) :
                      \A k \in 1..Len(result.val[i].upstream_fields) :
                          result.val[i].upstream_fields[k].table =
                              DropLeadingHive(edges[i].upstreams[k].table)
            /\ result.op = "get_upstream_dataset_urn" =>
                  \A j \in 1..Len(in_tables) :
                      NotOfAView(in_tables[j]) =>
                          DropLeadingHive(in_tables[j]) \in Range(result.val)

====
